---- MODULE Spec2Model ----
(***************************************************************************)
(* Air Guitar backend: the two tables (scores, play_history), the request  *)
(* validation of the two submission schemas and the six request handlers   *)
(* of backend/main.py.                                                     *)
(*                                                                         *)
(* Representation.                                                         *)
(*  - A table is the sequence of its rows in insertion order.              *)
(*  - A JSON request body is a function from the field names that are      *)
(*    present to their values: an omitted field is not in its DOMAIN.      *)
(*  - A response is [status, kind, body]; body is always a sequence of     *)
(*    JSON objects (kind "object": exactly one, kind "array": the list).   *)
(*  - average_score and perfect_rate are floats rounded to 2 decimals; the *)
(*    model holds them as integers counting hundredths (5000 is 50.0).     *)
(*  - played_at is the clock reading taken by the INSERT.  Only the order  *)
(*    and equality of readings matter, so a reading is either the latest   *)
(*    one taken so far (`now`) or the next one.                            *)
(*  - ORDER BY on a single column leaves the order of rows with equal keys *)
(*    to the storage engine.  SQLite evaluates the same query plan over    *)
(*    the same file, so that order is a function of the stored rows; which *)
(*    one is not fixed by the source, hence tieBreak is chosen at start.   *)
(***************************************************************************)
EXTENDS Integers, Sequences, FiniteSets, TLC

VARIABLES scores, histories, now, tieBreak, req, resp

vars == <<scores, histories, now, tieBreak, req, resp>>

(* ------------------------------ bounds --------------------------------- *)

\* rows stored in the two tables together
MaxRows == 2

(* ------------------------- program constants --------------------------- *)

MinPlayerIdLen == 1

MaxPlayerIdLen == 50

MinLimit == 1

MaxLimit == 100

DefaultCount == 0

FirstRank == 1

Percent == 100

Decimals == 2

(* ------------------------------ inputs --------------------------------- *)

PlayerA == "a"

PlayerLen50 == "bbbbbbbbbbbbbbbbbbbbbbbbbbbbbbbbbbbbbbbbbbbbbbbbbb"

PlayerLen51 == "ccccccccccccccccccccccccccccccccccccccccccccccccccc"

Players == {PlayerA, PlayerLen50}

BadPlayerIds == {"", PlayerLen51}

Limits == {0, 1, 2, 100, 101}

ScoreFields ==
    {"player_id", "score", "max_combo", "perfect_count", "great_count", "miss_count"}

CountFields == {"perfect_count", "great_count", "miss_count"}

ScoreIntFields == ScoreFields \ {"player_id"}

HistoryFields == {"player_id", "score", "max_combo", "duration_seconds"}

HistoryNumFields == HistoryFields \ {"player_id"}

TieBreaks == {"rowid_asc", "rowid_desc"}

ScoreBody(p, s, c, pc, gc, mc) ==
    [player_id |-> p, score |-> s, max_combo |-> c,
     perfect_count |-> pc, great_count |-> gc, miss_count |-> mc]

Omit(body, fields) == [f \in (DOMAIN body) \ fields |-> body[f]]

\* <<score, max_combo, perfect_count, great_count, miss_count>> of three plays:
\* nothing hit, every hit perfect, one hit of each judgment.
Plays == { <<0, 0, 0, 0, 0>>, <<1, 0, 1, 0, 0>>, <<2, 1, 1, 1, 1>> }

ValidScoreBodies ==
    { ScoreBody(p, y[1], y[2], y[3], y[4], y[5]) : p \in Players, y \in Plays }

BaseScoreBody == ScoreBody(PlayerA, 2, 1, 1, 1, 1)

\* BaseScoreBody with one constraint broken, with every constraint broken, and
\* with counts left out.
BadScoreBodies ==
    { [BaseScoreBody EXCEPT ![f] = -1] : f \in ScoreIntFields }
    \cup { [BaseScoreBody EXCEPT !.player_id = p] : p \in BadPlayerIds }
    \cup { ScoreBody("", -1, -1, -1, -1, -1) }
    \cup { Omit(BaseScoreBody, {f}) : f \in CountFields }
    \cup { Omit(BaseScoreBody, CountFields) }
    \cup { Omit([BaseScoreBody EXCEPT !.score = -1], {"miss_count"}) }

ScoreBodies == ValidScoreBodies \cup BadScoreBodies

HistoryBody(p, s, c, d) ==
    [player_id |-> p, score |-> s, max_combo |-> c, duration_seconds |-> d]

ValidHistoryBodies == { HistoryBody(p, 1, 0, 0) : p \in Players }

BaseHistoryBody == HistoryBody(PlayerA, 1, 0, 0)

BadHistoryBodies ==
    { [BaseHistoryBody EXCEPT ![f] = -1] : f \in HistoryNumFields }
    \cup { [BaseHistoryBody EXCEPT !.player_id = p] : p \in BadPlayerIds }
    \cup { Omit(BaseHistoryBody, {"duration_seconds"}) }

HistoryBodies == ValidHistoryBodies \cup BadHistoryBodies

(* ---------------------------- validation ------------------------------- *)

StrLenOkNoMin(v, lo, hi) == Len(v) <= hi

StrLenOk(v, lo, hi) == Len(v) >= lo /\ Len(v) <= hi

Ge0OrMinusOne(v) == v >= -1

Ge0(v) == v >= 0

ScoreSubmitOk(body) ==
    /\ ScoreFields \subseteq DOMAIN body
    /\ StrLenOk(body.player_id, MinPlayerIdLen, MaxPlayerIdLen)
    /\ Ge0(body.score)
    /\ Ge0(body.max_combo)
    /\ Ge0(body.perfect_count)
    /\ Ge0(body.great_count)
    /\ Ge0(body.miss_count)

PlayHistorySubmitOk(body) ==
    /\ HistoryFields \subseteq DOMAIN body
    /\ StrLenOk(body.player_id, MinPlayerIdLen, MaxPlayerIdLen)
    /\ Ge0(body.score)
    /\ Ge0(body.max_combo)
    /\ Ge0(body.duration_seconds)

LimitOk(limit) == limit >= MinLimit /\ limit <= MaxLimit

(* ------------------------------ storage -------------------------------- *)

MaxOf(S) == CHOOSE m \in S : \A x \in S : x <= m

Ids(table) == {table[i].id : i \in 1..Len(table)}

NextRowIdByCount(table) == IF table = <<>> THEN 1 ELSE Len(table)

\* INTEGER PRIMARY KEY: one more than the largest id in the table
NextRowId(table) == IF Ids(table) = {} THEN 1 ELSE MaxOf(Ids(table)) + 1

ModelDump(body, fields) == [f \in fields |-> body[f]]

\* The row the INSERT writes and refresh() reads back: the object's columns,
\* the column defaults for what it leaves unset, and the new primary key.
Flush(table, obj, columns, utcnow) ==
    [f \in columns \cup {"id", "played_at"} |->
        IF f = "id" THEN NextRowId(table)
        ELSE IF f = "played_at" THEN utcnow
        ELSE IF f \in DOMAIN obj THEN obj[f]
        ELSE DefaultCount]

AddOverLast(table, row) ==
    IF table = <<>> THEN <<row>> ELSE [table EXCEPT ![Len(table)] = row]

Add(table, row) == Append(table, row)

Filter(table, pid) == SelectSeq(table, LAMBDA r : r.player_id = pid)

BeforeAscending(rows, col, tb, i, j) ==
    \/ rows[i][col] < rows[j][col]
    \/ /\ rows[i][col] = rows[j][col]
       /\ IF tb = "rowid_asc" THEN i < j ELSE i > j

\* Row i is returned before row j: larger key first; equal keys in the order
\* the engine scans them (i, j are positions in rowid order).
Before(rows, col, tb, i, j) ==
    \/ rows[i][col] > rows[j][col]
    \/ /\ rows[i][col] = rows[j][col]
       /\ IF tb = "rowid_asc" THEN i < j ELSE i > j

OrderBy(rows, col, tb) ==
    LET n == Len(rows)
        pos(i) == 1 + Cardinality({j \in 1..n : Before(rows, col, tb, j, i)})
    IN  [k \in 1..n |-> rows[CHOOSE i \in 1..n : pos(i) = k]]

OrderByDesc(rows, col) == OrderBy(rows, col, tieBreak)

Limit(rows, n) == SubSeq(rows, 1, IF n < Len(rows) THEN n ELSE Len(rows))

(* ----------------------------- responses ------------------------------- *)

ValidationError == [status |-> "validation_error", kind |-> "error", body |-> <<>>]

Object(o) == [status |-> "ok", kind |-> "object", body |-> <<o>>]

Array(s) == [status |-> "ok", kind |-> "array", body |-> s]

(* ---------------------------- aggregation ------------------------------ *)

RECURSIVE SumOf(_, _)
SumOf(rows, col) ==
    IF rows = <<>> THEN 0 ELSE Head(rows)[col] + SumOf(Tail(rows), col)

MaxCol(rows, col) == MaxOf({rows[i][col] : i \in 1..Len(rows)})

RECURSIVE Pow10(_)
Pow10(n) == IF n = 0 THEN 1 ELSE 10 * Pow10(n - 1)

\* round(num / den, Decimals), counted in units of 10^-Decimals; a value half
\* way between two of them goes to the even one
Round(num, den) ==
    LET scaled == num * Pow10(Decimals)
        q == scaled \div den
        twice == 2 * (scaled % den)
    IN  IF twice < den THEN q
        ELSE IF twice > den THEN q + 1
        ELSE IF q % 2 = 0 THEN q ELSE q + 1

LeaderboardEntries(rows) ==
    [i \in 1..Len(rows) |->
        [rank |-> i - 1 + FirstRank, player_id |-> rows[i].player_id,
         score |-> rows[i].score, max_combo |-> rows[i].max_combo,
         played_at |-> rows[i].played_at]]

ZeroStats ==
    [total_plays |-> 0, total_score |-> 0, average_score |-> 0,
     best_score |-> 0, best_combo |-> 0, perfect_rate |-> 0]

TotalPlaysFromScores(ss, hs) == Len(ss)

TotalPlays(ss, hs) == Len(hs)

TotalHitsWithoutMiss(ss) == SumOf(ss, "perfect_count") + SumOf(ss, "great_count")

TotalHits(ss) ==
    SumOf(ss, "perfect_count") + SumOf(ss, "great_count") + SumOf(ss, "miss_count")

PerfectRate(ss) ==
    IF TotalHits(ss) > 0
    THEN Round(SumOf(ss, "perfect_count") * Percent, TotalHits(ss))
    ELSE 0

Aggregate(ss, hs) ==
    [total_plays |-> TotalPlays(ss, hs),
     total_score |-> SumOf(ss, "score"),
     average_score |-> Round(SumOf(ss, "score"), Len(ss)),
     best_score |-> MaxCol(ss, "score"),
     best_combo |-> MaxCol(ss, "max_combo"),
     perfect_rate |-> PerfectRate(ss)]

StatsWithoutShortCircuit(ss, hs) ==
    IF ss = <<>> THEN [ZeroStats EXCEPT !.total_plays = Len(hs)] ELSE Aggregate(ss, hs)

Stats(ss, hs) == IF ss = <<>> THEN ZeroStats ELSE Aggregate(ss, hs)

(* ------------------------------ handlers ------------------------------- *)

Init ==
    /\ scores = <<>>
    /\ histories = <<>>
    /\ now = 0
    /\ tieBreak \in TieBreaks
    /\ req = [op |-> "none"]
    /\ resp = [status |-> "none", kind |-> "none", body |-> <<>>]

RoomForRow == Len(scores) + Len(histories) < MaxRows

\* what datetime.utcnow can return to the next INSERT
ClockReadings == {now, now + 1}

submit_score(body) ==
    /\ req' = [op |-> "submit_score", body |-> body]
    /\ IF ScoreSubmitOk(body)
       THEN /\ RoomForRow
            /\ \E utcnow \in ClockReadings :
                 LET db_score ==
                         Flush(scores, ModelDump(body, ScoreFields), ScoreFields, utcnow)
                 IN  /\ scores' = Add(scores, db_score)
                     /\ now' = utcnow
                     /\ resp' = Object(db_score)
       ELSE /\ resp' = ValidationError
            /\ UNCHANGED <<scores, now>>
    /\ UNCHANGED <<histories, tieBreak>>

submit_history(body) ==
    /\ req' = [op |-> "submit_history", body |-> body]
    /\ IF PlayHistorySubmitOk(body)
       THEN /\ RoomForRow
            /\ \E utcnow \in ClockReadings :
                 LET db_history ==
                         Flush(histories, ModelDump(body, HistoryFields),
                               HistoryFields, utcnow)
                 IN  /\ histories' = Add(histories, db_history)
                     /\ now' = utcnow
                     /\ resp' = Object(db_history)
       ELSE /\ resp' = ValidationError
            /\ UNCHANGED <<histories, now>>
    /\ UNCHANGED <<scores, tieBreak>>

get_leaderboard_unstable(limit) ==
    /\ req' = [op |-> "get_leaderboard", limit |-> limit]
    /\ \E tb \in TieBreaks :
         resp' = IF LimitOk(limit)
                 THEN Array(LeaderboardEntries(Limit(OrderBy(scores, "score", tb), limit)))
                 ELSE ValidationError
    /\ UNCHANGED <<scores, histories, now, tieBreak>>

get_leaderboard(limit) ==
    /\ req' = [op |-> "get_leaderboard", limit |-> limit]
    /\ resp' = IF LimitOk(limit)
               THEN Array(LeaderboardEntries(Limit(OrderByDesc(scores, "score"), limit)))
               ELSE ValidationError
    /\ UNCHANGED <<scores, histories, now, tieBreak>>

get_player_history(player_id, limit) ==
    /\ req' = [op |-> "get_player_history", player_id |-> player_id, limit |-> limit]
    /\ resp' = IF LimitOk(limit)
               THEN Array(Limit(OrderByDesc(Filter(histories, player_id), "played_at"),
                                limit))
               ELSE ValidationError
    /\ UNCHANGED <<scores, histories, now, tieBreak>>

get_player_stats(player_id) ==
    /\ req' = [op |-> "get_player_stats", player_id |-> player_id]
    /\ resp' = Object(Stats(Filter(scores, player_id), Filter(histories, player_id)))
    /\ UNCHANGED <<scores, histories, now, tieBreak>>

read_root ==
    /\ req' = [op |-> "read_root"]
    /\ resp' = Object([message |-> "Air Guitar Backend API", version |-> "1.0.0"])
    /\ UNCHANGED <<scores, histories, now, tieBreak>>

Next ==
    \/ \E body \in ScoreBodies : submit_score(body)
    \/ \E body \in HistoryBodies : submit_history(body)
    \/ \E limit \in Limits : get_leaderboard(limit)
    \/ \E player_id \in Players, limit \in Limits :
           get_player_history(player_id, limit)
    \/ \E player_id \in Players : get_player_stats(player_id)
    \/ read_root

Spec == Init /\ [][Next]_vars

(* ------------------------------ claims --------------------------------- *)

GetOps == {"get_leaderboard", "get_player_history", "get_player_stats"}

Present(body, f) == f \in DOMAIN body

Negative(body, f) == Present(body, f) /\ body[f] < 0

PlayerIdOk(p) == Len(p) >= 1 /\ Len(p) <= 50

ScoreRowsOf(p) == {i \in 1..Len(scores) : scores[i].player_id = p}

HistoryRowsOf(p) == {i \in 1..Len(histories) : histories[i].player_id = p}

RECURSIVE SumOver(_, _)
SumOver(S, col) ==
    IF S = {} THEN 0
    ELSE LET i == CHOOSE x \in S : TRUE
         IN  scores[i][col] + SumOver(S \ {i}, col)

IsMaxOver(m, S, col) ==
    /\ \E i \in S : scores[i][col] = m
    /\ \A i \in S : scores[i][col] <= m

Abs(x) == IF x < 0 THEN -x ELSE x

AnsweredStats == req.op = "get_player_stats" /\ resp.status = "ok"

\* the submissions C1 is about
C1_Rejected(body) ==
    \/ \E f \in ScoreIntFields : Negative(body, f)
    \/ Present(body, "player_id") /\ ~PlayerIdOk(body.player_id)

\* C1: a score submission with a negative score, max_combo or count, or with
\* an empty or over-long player_id, is answered with a validation error and
\* leaves both tables exactly as they were.
C1_InvalidScoreRejected ==
    [][ (req'.op = "submit_score" /\ C1_Rejected(req'.body))
            => /\ resp'.status = "validation_error"
               /\ scores' = scores
               /\ histories' = histories ]_vars

C1_Witness ==
    /\ req.op = "submit_score"
    /\ C1_Rejected(req.body)
    /\ resp.status = "validation_error"
    /\ Len(scores) > 0

\* the submissions C2 is about
C2_Valid(body) ==
    /\ \A f \in ScoreFields : Present(body, f)
    /\ PlayerIdOk(body.player_id)
    /\ \A f \in ScoreIntFields : body[f] >= 0

\* C2: a valid score submission appends exactly one Score row, with an id no
\* stored row has and the submitted values, returns that row with id and
\* played_at set, and changes no other row of either table.
C2_ValidScoreInserted ==
    [][ (req'.op = "submit_score" /\ C2_Valid(req'.body))
            => /\ Len(scores') = Len(scores) + 1
               /\ SubSeq(scores', 1, Len(scores)) = scores
               /\ histories' = histories
               /\ LET row == scores'[Len(scores')]
                  IN  /\ {"id", "played_at"} \subseteq DOMAIN row
                      /\ row.id >= 1
                      /\ \A i \in 1..Len(scores) : scores[i].id # row.id
                      /\ \A f \in ScoreFields : row[f] = req'.body[f]
                      /\ resp' = [status |-> "ok", kind |-> "object", body |-> <<row>>]
      ]_vars

C2_Witness ==
    /\ req.op = "submit_score"
    /\ resp.status = "ok"
    /\ Len(scores) >= 2
    /\ resp.body = <<scores[Len(scores)]>>

SameRow(entry, row) ==
    /\ entry.player_id = row.player_id
    /\ entry.score = row.score
    /\ entry.max_combo = row.max_combo
    /\ entry.played_at = row.played_at

\* C3: for a limit L in 1..100 the leaderboard has min(L, number of Score
\* rows) entries, each taken from a different Score row, no row left out
\* scoring higher than a returned one, in descending order of score, the
\* entry at position i having rank i.
C3_Leaderboard ==
    (req.op = "get_leaderboard" /\ req.limit >= 1 /\ req.limit <= 100)
        => /\ resp.status = "ok"
           /\ LET out == resp.body
                  n == Len(out)
                  m == Len(scores)
              IN  /\ n <= req.limit
                  /\ n = (IF req.limit < m THEN req.limit ELSE m)
                  /\ \A i \in 1..n : out[i].rank = i
                  /\ \A i, j \in 1..n : i < j => out[i].score >= out[j].score
                  /\ \E pick \in [1..n -> 1..m] :
                        /\ \A i, j \in 1..n : i # j => pick[i] # pick[j]
                        /\ \A i \in 1..n : SameRow(out[i], scores[pick[i]])
                        /\ \A k \in 1..m :
                              (\A i \in 1..n : pick[i] # k)
                                  => \A i \in 1..n : scores[k].score <= out[i].score

C3_Witness ==
    /\ req.op = "get_leaderboard"
    /\ req.limit = 1
    /\ Len(scores) = 2
    /\ scores[1].score < scores[2].score
    /\ Len(resp.body) = 1
    /\ resp.body[1].score = scores[2].score

\* C4: the statistics of a player with no Score row are all zero, whatever
\* PlayHistory rows the player has.
C4_NoScoresZeroStats ==
    (req.op = "get_player_stats" /\ ScoreRowsOf(req.player_id) = {})
        => /\ resp.status = "ok"
           /\ resp.body = << [total_plays |-> 0, total_score |-> 0,
                              average_score |-> 0, best_score |-> 0,
                              best_combo |-> 0, perfect_rate |-> 0] >>

C4_Witness ==
    /\ AnsweredStats
    /\ ScoreRowsOf(req.player_id) = {}
    /\ HistoryRowsOf(req.player_id) # {}
    /\ resp.body[1].total_plays = 0

\* C5: for a player with at least one Score row, total_plays is the number of
\* the player's PlayHistory rows, total_score the sum, best_score the maximum
\* of the player's Score.score, and best_combo the maximum of the player's
\* Score.max_combo; no other player's row counts.
C5_StatsSources ==
    (req.op = "get_player_stats" /\ ScoreRowsOf(req.player_id) # {})
        => /\ resp.status = "ok"
           /\ LET mine == ScoreRowsOf(req.player_id)
                  st == resp.body[1]
              IN  /\ st.total_plays = Cardinality(HistoryRowsOf(req.player_id))
                  /\ st.total_score = SumOver(mine, "score")
                  /\ IsMaxOver(st.best_score, mine, "score")
                  /\ IsMaxOver(st.best_combo, mine, "max_combo")

C5_Witness ==
    /\ AnsweredStats
    /\ ScoreRowsOf(req.player_id) # {}
    /\ Cardinality(HistoryRowsOf(req.player_id))
           # Cardinality(ScoreRowsOf(req.player_id))
    /\ \E i \in 1..Len(scores) :
          /\ scores[i].player_id # req.player_id
          /\ scores[i].score > resp.body[1].best_score

\* the submissions C6 is about
C6_OmitsCounts(body) ==
    /\ \E f \in CountFields : ~Present(body, f)
    /\ \A f \in ScoreFields \ CountFields : Present(body, f)
    /\ PlayerIdOk(body.player_id)
    /\ \A f \in ScoreIntFields : ~Negative(body, f)

\* C6: a score submission that leaves out perfect_count, great_count or
\* miss_count and is otherwise valid is accepted, and the row stored and
\* returned has 0 for each count left out.
C6_OmittedCountsDefaultToZero ==
    (req.op = "submit_score" /\ C6_OmitsCounts(req.body))
        => /\ resp.status = "ok"
           /\ Len(scores) >= 1
           /\ resp.body = <<scores[Len(scores)]>>
           /\ \A f \in CountFields \ DOMAIN req.body : scores[Len(scores)][f] = 0

C8_AppendOnly ==
    [][ /\ Len(scores') >= Len(scores)
        /\ SubSeq(scores', 1, Len(scores)) = scores
        /\ Len(histories') >= Len(histories)
        /\ SubSeq(histories', 1, Len(histories)) = histories
        /\ (scores' # scores => req'.op = "submit_score")
        /\ (histories' # histories => req'.op = "submit_history") ]_vars

C8_Witness ==
    /\ Len(scores) >= 1
    /\ Len(histories) >= 1
    /\ req.op \in GetOps
    /\ resp.status = "ok"

\* C9: every stored Score row has score, max_combo and the three counts >= 0
\* and a player_id of 1 to 50 characters; every stored PlayHistory row has
\* score, max_combo and duration_seconds >= 0 and such a player_id.
C9_StoredRowsValid ==
    /\ \A i \in 1..Len(scores) :
          /\ PlayerIdOk(scores[i].player_id)
          /\ \A f \in ScoreIntFields : scores[i][f] >= 0
    /\ \A i \in 1..Len(histories) :
          /\ PlayerIdOk(histories[i].player_id)
          /\ \A f \in HistoryNumFields : histories[i][f] >= 0

C9_Witness ==
    /\ \E i \in 1..Len(scores) : Len(scores[i].player_id) = 50
    /\ \E i \in 1..Len(histories) : Len(histories[i].player_id) = 1
    /\ resp.status = "validation_error"

\* perfect_rate is held in hundredths: 100 * p / t is the rate r / 100
HitsOf(p) ==
    SumOver(ScoreRowsOf(p), "perfect_count") + SumOver(ScoreRowsOf(p), "great_count")
    + SumOver(ScoreRowsOf(p), "miss_count")

PerfectsOf(p) == SumOver(ScoreRowsOf(p), "perfect_count")

\* C10 as stated: for a player with a Score row, perfect_rate is 0.0 when the
\* player's counts sum to zero and otherwise exactly 100 times the sum of
\* perfect_count divided by that sum, a value from 0 to 100.
C10_ExactRate ==
    (req.op = "get_player_stats" /\ ScoreRowsOf(req.player_id) # {})
        => /\ resp.status = "ok"
           /\ LET r == resp.body[1].perfect_rate
                  t == HitsOf(req.player_id)
                  p == PerfectsOf(req.player_id)
              IN  /\ r >= 0 /\ r <= 100 * 100
                  /\ IF t = 0 THEN r = 0 ELSE r * t = 100 * p * 100

\* C10 amended: for a player with a Score row, perfect_rate is 0.0 when the
\* player's counts sum to zero and otherwise 100 times the sum of
\* perfect_count divided by that sum, rounded to 2 decimals (the hundredth
\* nearest to it), a value from 0 to 100.
C10_RoundedRate ==
    (req.op = "get_player_stats" /\ ScoreRowsOf(req.player_id) # {})
        => /\ resp.status = "ok"
           /\ LET r == resp.body[1].perfect_rate
                  t == HitsOf(req.player_id)
                  p == PerfectsOf(req.player_id)
              IN  /\ r >= 0 /\ r <= 100 * 100
                  /\ IF t = 0 THEN r = 0
                     ELSE 2 * Abs(r * t - 100 * p * 100) <= t

C10_Witness ==
    /\ AnsweredStats
    /\ ScoreRowsOf(req.player_id) # {}
    /\ HitsOf(req.player_id) > 0
    /\ (100 * PerfectsOf(req.player_id) * 100) % HitsOf(req.player_id) # 0
    /\ resp.body[1].perfect_rate > 0

====
